---- MODULE Spec2Model ----
(***************************************************************************)
(* Model of ext/lingua_rs_rb/src/lib.rs: the Ruby binding of the lingua    *)
(* language detection engine.  The binding consists of                     *)
(*   - the identifier parsers (parse_languages, parse_iso_codes_639_1/3,   *)
(*     parse_language_value),                                              *)
(*   - LanguageDetectorBuilderWrapper, a RefCell<Option<builder>> slot     *)
(*     that the setters take and put back and that build takes for good,   *)
(*   - LanguageDetectorWrapper, the facade over the built detector.        *)
(* The lingua engine itself is not part of the repository; its operators   *)
(* (Engine...) are modelled at their interface as the specification        *)
(* describes them.                                                         *)
(*                                                                         *)
(* Floats are modelled in hundredths (0.5 is 50); NaN is a distinguished   *)
(* value every comparison with which is false.                             *)
(***************************************************************************)
EXTENDS Integers, Sequences, FiniteSets, TLC

\* ------------------------------------------------------------------ bounds
MaxBuilders == 1
MaxLen == 2
MaxBuilds == 2

\* ------------------------------------------------------- the host's values
\* Option<T>: None is the empty sequence, Some(x) the one-element sequence
None == <<>>
Some(x) == <<x>>
NaN == 999

\* f64 arguments of with_minimum_relative_distance, in hundredths
Distances == {-1, 0, 100, 101, NaN}

\* identifier tokens a caller may pass
NameTokens == {"English", "French", "Klingon", "Elvish"}
Iso1Tokens == {"en", "fr", "zz", "yy"}
Iso3Tokens == {"eng", "fra", "zzz", "yyy"}
Texts == {"", "hello", "bonjour"}
\* Ruby values passed as the language of compute_language_confidence
LanguageValues == [kind : {"String", "Symbol"}, name : {"French", "Klingon"}]

SeqsUpTo(S, n) == UNION {[1..k -> S] : k \in 0..n}
ShortLists(S) == {<<>>} \cup {<<x>> : x \in S}

\* ------------------------------------------------------------ the engine
\* lingua::Language, IsoCode639_1 and IsoCode639_3 are enums; their values
\* are modelled by their discriminants.
Language == {1, 2}
IsoCode639_1 == {11, 12}
IsoCode639_3 == {21, 22}

LanguageName == [l \in Language |->
    IF l = 1 THEN "English" ELSE "French"]
Iso1Name == [c \in IsoCode639_1 |->
    IF c = 11 THEN "en" ELSE "fr"]
Iso3Name == [c \in IsoCode639_3 |->
    IF c = 21 THEN "eng" ELSE "fra"]

\* Display for Language: the canonical name
LanguageToString(l) == LanguageName[l]

\* FromStr: exact lookup in the engine's vocabulary; 0 stands for Err
LanguageFromStr(s) ==
    IF \E l \in Language : LanguageName[l] = s
    THEN CHOOSE l \in Language : LanguageName[l] = s ELSE 0
IsoCode639_1FromStr(s) ==
    IF \E c \in IsoCode639_1 : Iso1Name[c] = s
    THEN CHOOSE c \in IsoCode639_1 : Iso1Name[c] = s ELSE 0
IsoCode639_3FromStr(s) ==
    IF \E c \in IsoCode639_3 : Iso3Name[c] = s
    THEN CHOOSE c \in IsoCode639_3 : Iso3Name[c] = s ELSE 0

Range(s) == {s[i] : i \in 1..Len(s)}

\* LanguageDetectorBuilder: the configuration record the engine accumulates
EngineBuilder(langs) ==
    [languages |-> langs, minimum_relative_distance |-> 0,
     is_every_language_model_preloaded |-> FALSE,
     is_low_accuracy_mode_enabled |-> FALSE]

\* the engine's language sets behind the factories without arguments
EngineLanguageSet(kind) ==
    CASE kind = "from_all_languages" -> Language
      [] kind = "from_all_spoken_languages" -> Language
      [] kind = "from_all_languages_with_arabic_script" -> {}
      [] kind = "from_all_languages_with_cyrillic_script" -> {}
      [] kind = "from_all_languages_with_devanagari_script" -> {}
      [] OTHER -> {1, 2}

\* Language::all_with_single_unique_script().into_iter().collect()
EngineAllWithSingleUniqueScript == <<2>>

EngineFromLanguages(langs) == EngineBuilder(Range(langs))
EngineFromAllLanguagesWithout(langs) == EngineBuilder(Language \ Range(langs))
EngineFromIsoCodes639_1(codes) == EngineBuilder({c - 10 : c \in Range(codes)})
EngineFromIsoCodes639_3(codes) == EngineBuilder({c - 20 : c \in Range(codes)})

EngineWithMinimumRelativeDistance(builder, distance) ==
    [builder EXCEPT !.minimum_relative_distance = distance]
EngineWithPreloadedLanguageModels(builder) ==
    [builder EXCEPT !.is_every_language_model_preloaded = TRUE]
EngineWithLowAccuracyMode(builder) ==
    [builder EXCEPT !.is_low_accuracy_mode_enabled = TRUE]
\* LanguageDetectorBuilder::build: the detector carries the configuration
EngineBuild(builder) == builder

\* the engine's detection functions: a fixed deterministic classifier
EngineGuess(text) ==
    CASE text = "hello" -> 1 [] text = "bonjour" -> 2 [] OTHER -> 0
EngineDetectLanguageOf(detector, text) ==
    IF EngineGuess(text) \in detector.languages
    THEN Some(EngineGuess(text)) ELSE None
EngineDetectLanguagesInParallelOf(detector, texts) ==
    [i \in 1..Len(texts) |-> EngineDetectLanguageOf(detector, texts[i])]
\* DetectionResult: language, start_index, end_index
EngineDetectMultipleLanguagesOf(detector, text) ==
    IF EngineGuess(text) \in detector.languages
    THEN <<[language |-> EngineGuess(text), start_index |-> 0,
            end_index |-> IF text = "hello" THEN 5 ELSE 7]>>
    ELSE <<>>
EngineDetectMultipleLanguagesInParallelOf(detector, texts) ==
    [i \in 1..Len(texts) |-> EngineDetectMultipleLanguagesOf(detector, texts[i])]
EngineComputeLanguageConfidence(detector, text, language) ==
    IF language \in detector.languages /\ EngineGuess(text) = language
    THEN 100 ELSE 0
EngineComputeLanguageConfidenceInParallel(detector, texts, language) ==
    [i \in 1..Len(texts) |->
        EngineComputeLanguageConfidence(detector, texts[i], language)]
\* the configured languages, by descending confidence, then by discriminant
EngineComputeLanguageConfidenceValues(detector, text) ==
    LET hit == IF EngineGuess(text) \in detector.languages
               THEN <<EngineGuess(text)>> ELSE <<>>
        rest == detector.languages \ Range(hit)
        RECURSIVE Asc(_)
        Asc(S) == IF S = {} THEN <<>>
                  ELSE LET m == CHOOSE x \in S : \A y \in S : x <= y
                       IN <<m>> \o Asc(S \ {m})
        order == hit \o Asc(rest)
    IN [i \in 1..Len(order) |->
          <<order[i], EngineComputeLanguageConfidence(detector, text, order[i])>>]
EngineComputeLanguageConfidenceValuesInParallel(detector, texts) ==
    [i \in 1..Len(texts) |->
        EngineComputeLanguageConfidenceValues(detector, texts[i])]

\* ------------------------------------------------------ Result<T, Error>
ArgumentError == "ArgumentError"
RuntimeError == "RuntimeError"
Ok(v) == [status |-> "ok", value |-> Some(v), msg |-> ""]
Err(class, m) == [status |-> class, value |-> None, msg |-> m]
IsOk(r) == r.status = "ok"
Unwrap(r) == r.value[1]

\* --------------------------------------------------- identifier parsers
\* values.into_iter().map(from_str ...).collect::<Result<Vec<_>, _>>():
\* left to right, stopping at the first Err
\* a collect that goes on after an Err and so reports the last one
RECURSIVE CollectLanguagesLastErr(_, _)
CollectLanguagesLastErr(values, acc) ==
    IF values = <<>> THEN Ok(acc)
    ELSE LET rest == CollectLanguagesLastErr(
                         Tail(values),
                         Append(acc, LanguageFromStr(Head(values))))
         IN IF ~IsOk(rest) THEN rest
            ELSE IF LanguageFromStr(Head(values)) = 0
                 THEN Err(ArgumentError, "unknown language: " \o Head(values))
                 ELSE rest

RECURSIVE CollectLanguages(_, _)
CollectLanguages(values, acc) ==
    IF values = <<>> THEN Ok(acc)
    ELSE IF LanguageFromStr(Head(values)) = 0
         THEN Err(ArgumentError, "unknown language: " \o Head(values))
         ELSE CollectLanguages(Tail(values),
                               Append(acc, LanguageFromStr(Head(values))))

parse_languages(values) ==
    IF values = <<>>
    THEN Err(ArgumentError, "languages list must not be empty")
    ELSE CollectLanguages(values, <<>>)

RECURSIVE CollectIsoCodes639_1(_, _)
CollectIsoCodes639_1(values, acc) ==
    IF values = <<>> THEN Ok(acc)
    ELSE IF IsoCode639_1FromStr(Head(values)) = 0
         THEN Err(ArgumentError, "unknown ISO 639-1 code: " \o Head(values))
         ELSE CollectIsoCodes639_1(Tail(values),
                               Append(acc, IsoCode639_1FromStr(Head(values))))

parse_iso_codes_639_1(values) ==
    IF values = <<>>
    THEN Err(ArgumentError, "ISO 639-1 codes list must not be empty")
    ELSE CollectIsoCodes639_1(values, <<>>)

RECURSIVE CollectIsoCodes639_3(_, _)
CollectIsoCodes639_3(values, acc) ==
    IF values = <<>> THEN Ok(acc)
    ELSE IF IsoCode639_3FromStr(Head(values)) = 0
         THEN Err(ArgumentError, "unknown ISO 639-3 code: " \o Head(values))
         ELSE CollectIsoCodes639_3(Tail(values),
                               Append(acc, IsoCode639_3FromStr(Head(values))))

\* the parser without its check for the empty list
parse_iso_codes_639_3_unchecked(values) == CollectIsoCodes639_3(values, <<>>)

parse_iso_codes_639_3(values) ==
    IF values = <<>>
    THEN Err(ArgumentError, "ISO 639-3 codes list must not be empty")
    ELSE CollectIsoCodes639_3(values, <<>>)

\* Value#to_s of a String or a Symbol
ToS(value) == value.name

\* value.funcall("to_s", ()) then Language::from_str
parse_language_value(value) ==
    IF LanguageFromStr(ToS(value)) = 0
    THEN Err(ArgumentError, "unknown language: " \o ToS(value))
    ELSE Ok(LanguageFromStr(ToS(value)))

\* ------------------------------------------------------- builder wrapper
\* a take_builder that clones the builder and leaves it in the slot
take_builder_clone(slot) ==
    IF slot = None
    THEN [res |-> Err(RuntimeError,
                      "language detector builder has already been consumed"),
          slot |-> None]
    ELSE [res |-> Ok(slot[1]), slot |-> slot]

\* wrapper.0.borrow_mut().take().ok_or_else(...): the slot is left empty
take_builder(slot) ==
    IF slot = None
    THEN [res |-> Err(RuntimeError,
                      "language detector builder has already been consumed"),
          slot |-> None]
    ELSE [res |-> Ok(slot[1]), slot |-> None]

\* the half-open range 0.0..1.0
DistanceInRangeExclusive(distance) ==
    distance # NaN /\ 0 <= distance /\ distance < 100

\* (0.0..=1.0).contains(&distance); false for NaN
DistanceInRange(distance) ==
    distance # NaN /\ 0 <= distance /\ distance <= 100

\* Each handler maps the slot it finds to the result of the call, the slot
\* it leaves and the engine functions it invoked.

\* the setter with the state check ahead of the range check
with_minimum_relative_distance_state_first(recv, slot, distance) ==
    LET t == take_builder(slot) IN
    IF ~IsOk(t.res) THEN [res |-> t.res, slot |-> t.slot, engine |-> {}]
    ELSE IF ~DistanceInRange(distance)
         THEN [res |-> Err(ArgumentError,
                  "minimum relative distance must be between 0.0 and 1.0"),
               slot |-> slot, engine |-> {}]
         ELSE [res |-> Ok(recv),
               slot |-> Some(EngineWithMinimumRelativeDistance(
                                 Unwrap(t.res), distance)),
               engine |-> {"with_minimum_relative_distance"}]

with_minimum_relative_distance(recv, slot, distance) ==
    IF ~DistanceInRange(distance)
    THEN [res |-> Err(ArgumentError,
                  "minimum relative distance must be between 0.0 and 1.0"),
          slot |-> slot, engine |-> {}]
    ELSE LET t == take_builder(slot) IN
         IF ~IsOk(t.res) THEN [res |-> t.res, slot |-> t.slot, engine |-> {}]
         ELSE [res |-> Ok(recv),
               slot |-> Some(EngineWithMinimumRelativeDistance(
                                 Unwrap(t.res), distance)),
               engine |-> {"with_minimum_relative_distance"}]

with_preloaded_language_models(recv, slot) ==
    LET t == take_builder(slot) IN
    IF ~IsOk(t.res) THEN [res |-> t.res, slot |-> t.slot, engine |-> {}]
    ELSE [res |-> Ok(recv),
          slot |-> Some(EngineWithPreloadedLanguageModels(Unwrap(t.res))),
          engine |-> {"with_preloaded_language_models"}]

\* the setter without the store back into the slot
with_low_accuracy_mode_no_store(recv, slot) ==
    LET t == take_builder(slot) IN
    IF ~IsOk(t.res) THEN [res |-> t.res, slot |-> t.slot, engine |-> {}]
    ELSE [res |-> Ok(recv), slot |-> None,
          engine |-> {"with_low_accuracy_mode"}]

with_low_accuracy_mode(recv, slot) ==
    LET t == take_builder(slot) IN
    IF ~IsOk(t.res) THEN [res |-> t.res, slot |-> t.slot, engine |-> {}]
    ELSE [res |-> Ok(recv),
          slot |-> Some(EngineWithLowAccuracyMode(Unwrap(t.res))),
          engine |-> {"with_low_accuracy_mode"}]

\* a build that stores the builder back as the setters do
build_store_back(slot) ==
    LET t == take_builder(slot) IN
    IF ~IsOk(t.res) THEN [res |-> t.res, slot |-> t.slot, engine |-> {}]
    ELSE [res |-> Ok(EngineBuild(Unwrap(t.res))), slot |-> slot,
          engine |-> {"build"}]

build(slot) ==
    LET t == take_builder(slot) IN
    IF ~IsOk(t.res) THEN [res |-> t.res, slot |-> t.slot, engine |-> {}]
    ELSE [res |-> Ok(EngineBuild(Unwrap(t.res))), slot |-> t.slot,
          engine |-> {"build"}]

\* ------------------------------------------------------- detector facade
MapLanguage(lang) == IF lang = None THEN None ELSE Some(LanguageToString(lang[1]))

detect_language(detector, text) ==
    MapLanguage(EngineDetectLanguageOf(detector, text))

\* a batch that gathers the results from the last to the first
detect_languages_in_parallel_reversed(detector, texts) ==
    LET langs == EngineDetectLanguagesInParallelOf(detector, texts)
    IN [i \in 1..Len(langs) |-> MapLanguage(langs[Len(langs) + 1 - i])]

detect_languages_in_parallel(detector, texts) ==
    LET langs == EngineDetectLanguagesInParallelOf(detector, texts)
    IN [i \in 1..Len(langs) |-> MapLanguage(langs[i])]

detection_result_to_tuple(result) ==
    <<LanguageToString(result.language), result.start_index, result.end_index>>

detect_multiple_languages(detector, text) ==
    LET results == EngineDetectMultipleLanguagesOf(detector, text)
    IN [i \in 1..Len(results) |-> detection_result_to_tuple(results[i])]

detect_multiple_languages_in_parallel(detector, texts) ==
    LET all == EngineDetectMultipleLanguagesInParallelOf(detector, texts)
    IN [i \in 1..Len(all) |->
          [j \in 1..Len(all[i]) |-> detection_result_to_tuple(all[i][j])]]

MapConfidence(pair) == <<LanguageToString(pair[1]), pair[2]>>

compute_language_confidence_values(detector, text) ==
    LET values == EngineComputeLanguageConfidenceValues(detector, text)
    IN [i \in 1..Len(values) |-> MapConfidence(values[i])]

compute_language_confidence_values_in_parallel(detector, texts) ==
    LET all == EngineComputeLanguageConfidenceValuesInParallel(detector, texts)
    IN [i \in 1..Len(all) |->
          [j \in 1..Len(all[i]) |-> MapConfidence(all[i][j])]]

compute_language_confidence(detector, text, language_value) ==
    LET language == parse_language_value(language_value) IN
    IF ~IsOk(language) THEN [res |-> language, engine |-> {}]
    ELSE [res |-> Ok(EngineComputeLanguageConfidence(
                         detector, text, Unwrap(language))),
          engine |-> {"compute_language_confidence"}]

\* a batch that returns for no texts before it looks at the language
compute_language_confidence_in_parallel_lazy(detector, texts, language_value) ==
    LET language == parse_language_value(language_value) IN
    IF texts = <<>> THEN [res |-> Ok(<<>>), engine |-> {}]
    ELSE IF ~IsOk(language) THEN [res |-> language, engine |-> {}]
    ELSE [res |-> Ok(EngineComputeLanguageConfidenceInParallel(
                         detector, texts, Unwrap(language))),
          engine |-> {"compute_language_confidence_in_parallel"}]

compute_language_confidence_in_parallel(detector, texts, language_value) ==
    LET language == parse_language_value(language_value) IN
    IF ~IsOk(language) THEN [res |-> language, engine |-> {}]
    ELSE [res |-> Ok(EngineComputeLanguageConfidenceInParallel(
                         detector, texts, Unwrap(language))),
          engine |-> {"compute_language_confidence_in_parallel"}]

\* ------------------------------------------------------------------ state
\* builders[b]  : the slot RefCell<Option<LanguageDetectorBuilder>> of the
\*                b-th builder object created
\* detectors[b] : the detector the latest successful build on b returned
\* builds[b]    : how many build calls on b have succeeded
\* last         : the call that returned last: its name, receiver, argument,
\*                result and the engine functions it invoked
VARIABLES builders, detectors, builds, last
vars == <<builders, detectors, builds, last>>

Call(op, recv, arg, res, engine) ==
    [op |-> op, recv |-> recv, arg |-> arg, res |-> res, engine |-> engine]

Init ==
    /\ builders = <<>>
    /\ detectors = <<>>
    /\ builds = <<>>
    /\ last = Call("init", 0, 0, Ok(0), {})

\* LanguageDetectorBuilderWrapper::new
NewBuilder(builder) ==
    /\ builders' = Append(builders, Some(builder))
    /\ detectors' = Append(detectors, None)
    /\ builds' = Append(builds, 0)

NoArgFactories ==
    {"from_all_languages", "from_all_spoken_languages",
     "from_all_languages_with_arabic_script",
     "from_all_languages_with_cyrillic_script",
     "from_all_languages_with_devanagari_script",
     "from_all_languages_with_latin_script"}

\* builder_from_all_languages ... builder_from_all_languages_with_latin_script:
\* each calls the engine constructor of its own name
builder_from_all(kind) ==
    /\ Len(builders) < MaxBuilders
    /\ NewBuilder(EngineBuilder(EngineLanguageSet(kind)))
    /\ last' = Call(kind, 0, 0, Ok(Len(builders) + 1), {kind})

\* the languages come from Language::all_with_single_unique_script and the
\* builder from LanguageDetectorBuilder::from_languages
builder_from_all_languages_with_single_unique_script ==
    LET languages == EngineAllWithSingleUniqueScript IN
    /\ Len(builders) < MaxBuilders
    /\ NewBuilder(EngineFromLanguages(languages))
    /\ last' = Call("from_all_languages_with_single_unique_script", 0, 0,
                    Ok(Len(builders) + 1), {"from_languages"})

\* the factories taking a list: parse (?), and only then construct
builder_from_languages(languages) ==
    LET parsed == parse_languages(languages) IN
    /\ IF IsOk(parsed)
       THEN /\ Len(builders) < MaxBuilders
            /\ NewBuilder(EngineFromLanguages(Unwrap(parsed)))
            /\ last' = Call("from_languages", 0, languages, Ok(Len(builders) + 1),
                            {"from_languages"})
       ELSE /\ UNCHANGED <<builders, detectors, builds>>
            /\ last' = Call("from_languages", 0, languages, parsed, {})

builder_from_all_languages_without(languages) ==
    LET parsed == parse_languages(languages) IN
    /\ IF IsOk(parsed)
       THEN /\ Len(builders) < MaxBuilders
            /\ NewBuilder(EngineFromAllLanguagesWithout(Unwrap(parsed)))
            /\ last' = Call("from_all_languages_without", 0, languages, Ok(Len(builders) + 1),
                            {"from_all_languages_without"})
       ELSE /\ UNCHANGED <<builders, detectors, builds>>
            /\ last' = Call("from_all_languages_without", 0, languages, parsed, {})

builder_from_iso_codes_639_1(iso_codes) ==
    LET parsed == parse_iso_codes_639_1(iso_codes) IN
    /\ IF IsOk(parsed)
       THEN /\ Len(builders) < MaxBuilders
            /\ NewBuilder(EngineFromIsoCodes639_1(Unwrap(parsed)))
            /\ last' = Call("from_iso_codes_639_1", 0, iso_codes, Ok(Len(builders) + 1),
                            {"from_iso_codes_639_1"})
       ELSE /\ UNCHANGED <<builders, detectors, builds>>
            /\ last' = Call("from_iso_codes_639_1", 0, iso_codes, parsed, {})

builder_from_iso_codes_639_3(iso_codes) ==
    LET parsed == parse_iso_codes_639_3(iso_codes) IN
    /\ IF IsOk(parsed)
       THEN /\ Len(builders) < MaxBuilders
            /\ NewBuilder(EngineFromIsoCodes639_3(Unwrap(parsed)))
            /\ last' = Call("from_iso_codes_639_3", 0, iso_codes, Ok(Len(builders) + 1),
                            {"from_iso_codes_639_3"})
       ELSE /\ UNCHANGED <<builders, detectors, builds>>
            /\ last' = Call("from_iso_codes_639_3", 0, iso_codes, parsed, {})

\* ------------------------------------------- builder methods, as one call
\* Each action is one call from its entry to its return: a step from the
\* slot the method finds to the slot it leaves.
BuilderIds == 1..Len(builders)

CallWithMinimumRelativeDistance(b, distance) ==
    LET r == with_minimum_relative_distance(b, builders[b], distance) IN
    /\ builders' = [builders EXCEPT ![b] = r.slot]
    /\ last' = Call("with_minimum_relative_distance", b, distance, r.res,
                    r.engine)
    /\ UNCHANGED <<detectors, builds>>

CallWithPreloadedLanguageModels(b) ==
    LET r == with_preloaded_language_models(b, builders[b]) IN
    /\ builders' = [builders EXCEPT ![b] = r.slot]
    /\ last' = Call("with_preloaded_language_models", b, 0, r.res,
                    r.engine)
    /\ UNCHANGED <<detectors, builds>>

CallWithLowAccuracyMode(b) ==
    LET r == with_low_accuracy_mode(b, builders[b]) IN
    /\ builders' = [builders EXCEPT ![b] = r.slot]
    /\ last' = Call("with_low_accuracy_mode", b, 0, r.res,
                    r.engine)
    /\ UNCHANGED <<detectors, builds>>

CallBuild(b) ==
    LET r == build(builders[b]) IN
    /\ IsOk(r.res) => builds[b] < MaxBuilds
    /\ builders' = [builders EXCEPT ![b] = r.slot]
    /\ detectors' = IF IsOk(r.res)
                    THEN [detectors EXCEPT ![b] = Some(Unwrap(r.res))]
                    ELSE detectors
    /\ builds' = IF IsOk(r.res) THEN [builds EXCEPT ![b] = @ + 1] ELSE builds
    /\ last' = Call("build", b, 0, r.res, r.engine)

\* the factories, called with the lists of Names, Iso1 and Iso3
Factories(Names, Iso1, Iso3) ==
    \/ \E kind \in NoArgFactories : builder_from_all(kind)
    \/ builder_from_all_languages_with_single_unique_script
    \/ \E languages \in Names : builder_from_languages(languages)
    \/ \E languages \in Names : builder_from_all_languages_without(languages)
    \/ \E iso_codes \in Iso1 : builder_from_iso_codes_639_1(iso_codes)
    \/ \E iso_codes \in Iso3 : builder_from_iso_codes_639_3(iso_codes)

BuilderMethods ==
    \/ \E b \in BuilderIds, distance \in Distances :
          CallWithMinimumRelativeDistance(b, distance)
    \/ \E b \in BuilderIds : CallWithPreloadedLanguageModels(b)
    \/ \E b \in BuilderIds : CallWithLowAccuracyMode(b)
    \/ \E b \in BuilderIds : CallBuild(b)

\* the builder's life: any factory, then setters and build in any order
Next ==
    \/ Factories(ShortLists(NameTokens), ShortLists(Iso1Tokens),
                 ShortLists(Iso3Tokens))
    \/ BuilderMethods

Spec == Init /\ [][Next]_vars

\* the identifier parsers applied on their own
Parse(op, values, parsed) ==
    /\ last' = Call(op, 0, values, parsed, {})
    /\ UNCHANGED <<builders, detectors, builds>>

ParseLanguages(values) ==
    Parse("parse_languages", values, parse_languages(values))
ParseIsoCodes639_1(values) ==
    Parse("parse_iso_codes_639_1", values, parse_iso_codes_639_1(values))
ParseIsoCodes639_3(values) ==
    Parse("parse_iso_codes_639_3", values, parse_iso_codes_639_3(values))

\* the identifier parsers and the list factories on every list of at most
\* MaxLen tokens
NextParse ==
    \/ Factories(SeqsUpTo(NameTokens, MaxLen), SeqsUpTo(Iso1Tokens, MaxLen),
                 SeqsUpTo(Iso3Tokens, MaxLen))
    \/ \E values \in SeqsUpTo(NameTokens, MaxLen) : ParseLanguages(values)
    \/ \E values \in SeqsUpTo(Iso1Tokens, MaxLen) : ParseIsoCodes639_1(values)
    \/ \E values \in SeqsUpTo(Iso3Tokens, MaxLen) : ParseIsoCodes639_3(values)

SpecParse == Init /\ [][NextParse]_vars

\* ------------------------------------------------------- detector methods
DetectorIds == {b \in BuilderIds : detectors[b] # None}
Detector(b) == detectors[b][1]

Facade(op, b, arg, res, engine) ==
    /\ last' = Call(op, b, arg, res, engine)
    /\ UNCHANGED <<builders, detectors, builds>>

CallUnloadLanguageModels(b) ==
    Facade("unload_language_models", b, 0, Ok(0), {"unload_language_models"})

CallDetectLanguage(b, text) ==
    Facade("detect_language", b, text,
           Ok(detect_language(Detector(b), text)), {"detect_language_of"})

CallDetectLanguagesInParallel(b, texts) ==
    Facade("detect_languages_in_parallel", b, texts,
           Ok(detect_languages_in_parallel(Detector(b), texts)),
           {"detect_languages_in_parallel_of"})

CallDetectMultipleLanguages(b, text) ==
    Facade("detect_multiple_languages", b, text,
           Ok(detect_multiple_languages(Detector(b), text)),
           {"detect_multiple_languages_of"})

CallDetectMultipleLanguagesInParallel(b, texts) ==
    Facade("detect_multiple_languages_in_parallel", b, texts,
           Ok(detect_multiple_languages_in_parallel(Detector(b), texts)),
           {"detect_multiple_languages_in_parallel_of"})

CallComputeLanguageConfidenceValues(b, text) ==
    Facade("compute_language_confidence_values", b, text,
           Ok(compute_language_confidence_values(Detector(b), text)),
           {"compute_language_confidence_values"})

CallComputeLanguageConfidenceValuesInParallel(b, texts) ==
    Facade("compute_language_confidence_values_in_parallel", b, texts,
           Ok(compute_language_confidence_values_in_parallel(Detector(b), texts)),
           {"compute_language_confidence_values_in_parallel"})

CallComputeLanguageConfidence(b, text, language_value) ==
    LET r == compute_language_confidence(Detector(b), text, language_value)
    IN Facade("compute_language_confidence", b, <<text, language_value>>,
              r.res, r.engine)

CallComputeLanguageConfidenceInParallel(b, texts, language_value) ==
    LET r == compute_language_confidence_in_parallel(
                 Detector(b), texts, language_value)
    IN Facade("compute_language_confidence_in_parallel", b,
              <<texts, language_value>>, r.res, r.engine)

DetectorMethods ==
    \/ \E b \in DetectorIds : CallUnloadLanguageModels(b)
    \/ \E b \in DetectorIds, text \in Texts : CallDetectLanguage(b, text)
    \/ \E b \in DetectorIds, texts \in SeqsUpTo(Texts, MaxLen) :
          CallDetectLanguagesInParallel(b, texts)
    \/ \E b \in DetectorIds, text \in Texts :
          CallDetectMultipleLanguages(b, text)
    \/ \E b \in DetectorIds, texts \in SeqsUpTo(Texts, MaxLen) :
          CallDetectMultipleLanguagesInParallel(b, texts)
    \/ \E b \in DetectorIds, text \in Texts :
          CallComputeLanguageConfidenceValues(b, text)
    \/ \E b \in DetectorIds, texts \in SeqsUpTo(Texts, MaxLen) :
          CallComputeLanguageConfidenceValuesInParallel(b, texts)
    \/ \E b \in DetectorIds, text \in Texts, value \in LanguageValues :
          CallComputeLanguageConfidence(b, text, value)
    \/ \E b \in DetectorIds, texts \in SeqsUpTo(Texts, MaxLen),
          value \in LanguageValues :
          CallComputeLanguageConfidenceInParallel(b, texts, value)

\* the detector's life: a factory, build, then detection calls
NextFacade ==
    \/ builder_from_all("from_all_languages")
    \/ builder_from_all_languages_with_single_unique_script
    \/ \E b \in BuilderIds : CallBuild(b)
    \/ DetectorMethods

SpecFacade == Init /\ [][NextFacade]_vars

\* ================================================================ claims
Setters == {"with_minimum_relative_distance", "with_preloaded_language_models",
            "with_low_accuracy_mode"}
ListFactories == {"from_languages", "from_all_languages_without",
                  "from_iso_codes_639_1", "from_iso_codes_639_3"}
Parsers == {"parse_languages", "parse_iso_codes_639_1", "parse_iso_codes_639_3"}
ConsumedMessage == "language detector builder has already been consumed"

\* the step is a call of op on builder b
Called(op, b) == last'.op = op /\ last'.recv = b

\* C1: on every builder the first build succeeds and returns the detector
\* of the stored configuration, every build after a successful one fails
\* with RuntimeError "already been consumed", and no builder ever has more
\* than one successful build.
C1_BuildOnce ==
    /\ [](\A b \in BuilderIds : builds[b] <= 1)
    /\ [][\A b \in BuilderIds : Called("build", b) =>
            IF builds[b] = 0
            THEN /\ IsOk(last'.res)
                 /\ builders[b] # None
                 /\ Unwrap(last'.res) = builders[b][1]
                 /\ builds'[b] = 1
            ELSE /\ last'.res.status = RuntimeError
                 /\ last'.res.msg = ConsumedMessage
                 /\ builds'[b] = builds[b]]_vars

\* a second build has failed on a builder configured by a setter and built
C1_Witness ==
    \E b \in BuilderIds :
        /\ builds[b] = 1
        /\ detectors[b] # None
        /\ detectors[b][1].minimum_relative_distance = 100
        /\ last.op = "build" /\ last.recv = b
        /\ last.res.status = RuntimeError

\* C2: once build has succeeded on a builder its slot is empty in every
\* later state, and every later setter or build call on it fails.
C2_ConsumedIsAbsorbing ==
    /\ [](\A b \in BuilderIds : builds[b] >= 1 => builders[b] = None)
    /\ [][\A b \in BuilderIds : builds[b] >= 1 =>
            /\ builders'[b] = None
            /\ \A op \in Setters \cup {"build"} :
                  Called(op, b) => ~IsOk(last'.res)]_vars

\* a setter has failed on a consumed builder, whose slot is empty
C2_Witness ==
    \E b \in BuilderIds :
        /\ builds[b] = 1
        /\ builders[b] = None
        /\ last.op = "with_low_accuracy_mode" /\ last.recv = b
        /\ last.res.status = RuntimeError

\* C3: a step that empties an occupied slot is a successful build on that
\* builder, so no setter call, failing or not, consumes a Configured
\* builder; and a setter that returns normally returns its receiver.
C3_OnlyBuildConsumes ==
    /\ [][\A b \in BuilderIds :
            (builders[b] # None /\ builders'[b] = None) =>
                Called("build", b) /\ IsOk(last'.res)]_vars
    /\ [](last.op \in Setters /\ IsOk(last.res) =>
              Unwrap(last.res) = last.recv)

\* a setter has failed on a Configured builder that an earlier setter had
\* configured
C3_Witness ==
    \E b \in BuilderIds :
        /\ builders[b] # None
        /\ builders[b][1].is_every_language_model_preloaded
        /\ last.op = "with_minimum_relative_distance" /\ last.recv = b
        /\ last.res.status = ArgumentError

\* C4: with_minimum_relative_distance(d) on a Configured builder succeeds
\* and stores d in place of the prior value when 0.0 <= d <= 1.0, and
\* otherwise fails with ArgumentError and leaves the slot as it was.
C4_DistanceRange ==
    [][\A b \in BuilderIds :
        (Called("with_minimum_relative_distance", b) /\ builders[b] # None) =>
            IF last'.arg # NaN /\ last'.arg >= 0 /\ last'.arg <= 100
            THEN /\ IsOk(last'.res)
                 /\ builders'[b] = Some([builders[b][1] EXCEPT
                        !.minimum_relative_distance = last'.arg])
            ELSE /\ last'.res.status = ArgumentError
                 /\ builders'[b] = builders[b]]_vars

\* the upper bound 1.0 has been accepted and is the stored distance
C4_Witness ==
    \E b \in BuilderIds :
        /\ last.op = "with_minimum_relative_distance" /\ last.recv = b
        /\ last.arg = 100
        /\ IsOk(last.res)
        /\ builders[b] # None
        /\ builders[b][1].minimum_relative_distance = 100

\* C10: with_minimum_relative_distance(d) on a Consumed builder fails with
\* ArgumentError when d is outside [0.0, 1.0] and with RuntimeError
\* "already been consumed" when d is inside, and the slot stays empty.
C10_RangeCheckFirst ==
    [][\A b \in BuilderIds :
        (Called("with_minimum_relative_distance", b) /\ builders[b] = None) =>
            /\ builders'[b] = None
            /\ IF last'.arg # NaN /\ last'.arg >= 0 /\ last'.arg <= 100
               THEN /\ last'.res.status = RuntimeError
                    /\ last'.res.msg = ConsumedMessage
               ELSE last'.res.status = ArgumentError]_vars

\* an out-of-range distance has been rejected as an argument error on a
\* consumed builder
C10_Witness ==
    \E b \in BuilderIds :
        /\ builds[b] = 1 /\ builders[b] = None
        /\ last.op = "with_minimum_relative_distance" /\ last.recv = b
        /\ last.arg = 101
        /\ last.res.status = ArgumentError

\* C6: a list factory called with the empty list fails with ArgumentError,
\* creates no builder and does not reach the engine.
C6_EmptyListRejected ==
    [][(last'.op \in ListFactories /\ last'.arg = <<>>) =>
            /\ last'.res.status = ArgumentError
            /\ last'.engine = {}
            /\ builders' = builders]_vars

\* the ISO 639-3 factory has rejected the empty list
C6_Witness ==
    /\ last.op = "from_iso_codes_639_3"
    /\ last.arg = <<>>
    /\ last.res.status = ArgumentError
    /\ Len(builders) < MaxBuilders

\* the parse of one token by the parser op, 0 when it is unrecognized
FromStrOf(op, s) ==
    CASE op \in {"parse_languages", "from_languages",
                 "from_all_languages_without"} -> LanguageFromStr(s)
      [] op \in {"parse_iso_codes_639_1", "from_iso_codes_639_1"} ->
            IsoCode639_1FromStr(s)
      [] OTHER -> IsoCode639_3FromStr(s)
UnknownPrefix(op) ==
    CASE op = "parse_languages" -> "unknown language: "
      [] op = "parse_iso_codes_639_1" -> "unknown ISO 639-1 code: "
      [] OTHER -> "unknown ISO 639-3 code: "
Unrecognized(op, values) ==
    {i \in 1..Len(values) : FromStrOf(op, values[i]) = 0}
FirstUnrecognized(op, values) ==
    CHOOSE i \in Unrecognized(op, values) :
        \A j \in Unrecognized(op, values) : i <= j

\* C7: on a non-empty list a parser returns the parse of every entry, in
\* input order and as many as the entries, when all are recognized, and
\* otherwise fails with ArgumentError naming the first unrecognized entry;
\* a list factory given an unrecognized entry creates no builder and does
\* not reach the engine.
C7_ParseInOrder ==
    /\ []((last.op \in Parsers /\ last.arg # <<>>) =>
            IF Unrecognized(last.op, last.arg) = {}
            THEN /\ IsOk(last.res)
                 /\ Len(Unwrap(last.res)) = Len(last.arg)
                 /\ \A i \in 1..Len(last.arg) :
                       Unwrap(last.res)[i] = FromStrOf(last.op, last.arg[i])
            ELSE /\ last.res.status = ArgumentError
                 /\ last.res.msg = UnknownPrefix(last.op) \o
                       last.arg[FirstUnrecognized(last.op, last.arg)])
    /\ [][(last'.op \in ListFactories
           /\ Unrecognized(last'.op, last'.arg) # {}) =>
            /\ last'.res.status = ArgumentError
            /\ last'.engine = {}
            /\ builders' = builders]_vars

\* two unrecognized names have been parsed and the first one is reported
C7_Witness ==
    /\ last.op = "parse_languages"
    /\ last.arg = <<"Klingon", "Elvish">>
    /\ last.res.msg = "unknown language: Klingon"

\* C8: the result of each batch operation has one element per text, and
\* its i-th element is the result of the single-text operation on the
\* i-th text.
C8_BatchPreservesOrder ==
    LET det == Detector(last.recv)
        out == Unwrap(last.res) IN
    /\ last.op = "detect_languages_in_parallel" =>
          /\ Len(out) = Len(last.arg)
          /\ \A i \in 1..Len(last.arg) :
                out[i] = detect_language(det, last.arg[i])
    /\ last.op = "detect_multiple_languages_in_parallel" =>
          /\ Len(out) = Len(last.arg)
          /\ \A i \in 1..Len(last.arg) :
                out[i] = detect_multiple_languages(det, last.arg[i])
    /\ last.op = "compute_language_confidence_values_in_parallel" =>
          /\ Len(out) = Len(last.arg)
          /\ \A i \in 1..Len(last.arg) :
                out[i] = compute_language_confidence_values(det, last.arg[i])
    /\ (last.op = "compute_language_confidence_in_parallel"
        /\ IsOk(last.res)) =>
          /\ Len(out) = Len(last.arg[1])
          /\ \A i \in 1..Len(last.arg[1]) :
                out[i] = Unwrap(compute_language_confidence(
                                    det, last.arg[1][i], last.arg[2]).res)

\* a batch of two texts in two languages has been detected
C8_Witness ==
    /\ last.op = "detect_languages_in_parallel"
    /\ last.arg = <<"bonjour", "hello">>
    /\ Unwrap(last.res) = <<Some("French"), Some("English")>>

\* C9: compute_language_confidence and its batch form fail with
\* ArgumentError when the language is not a recognized name, whatever the
\* texts, without reaching the engine and without changing the detector.
C9_UnknownLanguageRejected ==
    [][(last'.op \in {"compute_language_confidence",
                      "compute_language_confidence_in_parallel"}
        /\ LanguageFromStr(last'.arg[2].name) = 0) =>
            /\ last'.res.status = ArgumentError
            /\ last'.res.msg = "unknown language: " \o last'.arg[2].name
            /\ last'.engine = {}
            /\ detectors' = detectors]_vars

\* the batch form has rejected an unknown language on an empty batch
C9_Witness ==
    /\ last.op = "compute_language_confidence_in_parallel"
    /\ last.arg[1] = <<>>
    /\ last.arg[2].name = "Klingon"
    /\ last.res.status = ArgumentError

====
